---- MODULE Spec2Model ----
\* Model of src/lib/feed.rs (Adduce Feed): the feed subcommands as operations
\* on the files under feed/.  Every subcommand runs to completion, so each is
\* one action; `last` holds what the most recent run did and printed.
EXTENDS Naturals, Sequences, FiniteSets

VARIABLES dirs, docs, conf, html, feed, last

vars == <<dirs, docs, conf, html, feed, last>>

----------------------------------------------------------------------------
\* Bounds and small value sets

\* Longest block list of a manifest's main section that Init draws.
MaxBlocks == 2

\* Document names given on the command line.
Names == {"a", "b"}

\* Option<T>: None is <<>>, Some(v) is <<v>>; Some("") differs from None.
None == <<>>

Some(v) == <<v>>

Unwrap(o) == o[1]

\* A file that does not exist.
Absent == None

\* A byte that is not valid UTF-8 on its own.
BadByte == "0xFF"

\* std::fs::read_to_string: the text of the file, or an error when the file
\* is absent or its bytes are not valid UTF-8.
read_to_string(file) ==
    IF file = Absent THEN [ok |-> FALSE, text |-> <<>>]
    ELSE IF \E i \in 1..Len(Unwrap(file)) : Unwrap(file)[i] = BadByte
         THEN [ok |-> FALSE, text |-> <<>>]
         ELSE [ok |-> TRUE, text |-> Unwrap(file)]

\* Result::unwrap_or_default on a read: the text, or the empty string.
unwrap_or_default(r) == IF r.ok THEN r.text ELSE <<>>

\* The three directories of the feed structure.
FeedDirs == <<"feed", "feed/documents", "feed/export">>

AllDirs == {FeedDirs[i] : i \in 1..Len(FeedDirs)}

\* format!("feed/documents/{document}.md")
md_file_path(name) == <<"feed/documents", name, "md">>

\* The file name of a document inside feed/documents: "<name>.md".
file_name(name) == <<name, ".md">>

\* format!("# {filename}\n"), the content cli_create writes.
initial_content(name) == <<"# ", name, "\n">>

\* What an editor session may leave in a document: text, or bytes that are
\* not UTF-8.
EditContents == {<<"x">>, <<BadByte>>}

----------------------------------------------------------------------------
\* The manifest (crate::config::toml::Conf as feed.rs uses it)

\* Object { content_file, format, ..Default::default() }
Object(content_file, format) == [content_file |-> content_file, format |-> format]

\* The required and the optional channel fields of Conf.
RequiredFields == <<"title", "link", "description">>

OptionalFields == <<"language", "copyright", "managing_editor", "webmaster", "ttl">>

\* A parsed Conf: every field an Option; main is Option<Main>, Main { block }.
MkConf(title, link, description, language, copyright, managing_editor, webmaster, ttl, main) ==
    [title |-> title, link |-> link, description |-> description,
     language |-> language, copyright |-> copyright,
     managing_editor |-> managing_editor, webmaster |-> webmaster,
     ttl |-> ttl, main |-> main]

EmptyConf == MkConf(None, None, None, None, None, None, None, None, None)

\* feed/conf.toml: absent, present but unparsable, or present and parsed.
ConfAbsent == [kind |-> "absent", conf |-> EmptyConf]

ConfMalformed == [kind |-> "malformed", conf |-> EmptyConf]

ConfOk(c) == [kind |-> "ok", conf |-> c]

\* fs::read_to_string("feed/conf.toml")
read_conf(confFile) == confFile.kind # "absent"

\* toml::from_str::<Conf>(&content)
from_str(confFile) ==
    [ok |-> confFile.kind = "ok", conf |-> confFile.conf]

\* Blocks a manifest may hold.
Blocks ==
    {Object(Some(md_file_path("a")), Some("md")),
     Object(None, Some("md")),
     Object(Some(md_file_path("b")), Some("pdf")),
     Object(Some(md_file_path("a")), None)}

RECURSIVE SeqsUpTo(_, _)
SeqsUpTo(S, n) ==
    IF n = 0 THEN {<<>>}
    ELSE LET shorter == SeqsUpTo(S, n - 1)
         IN  shorter \cup {Append(s, x) : s \in shorter, x \in S}

\* Manifests for page export: main absent, or a block list up to MaxBlocks.
ExportConfs ==
    {ConfAbsent, ConfMalformed, ConfOk(EmptyConf)}
        \cup {ConfOk([EmptyConf EXCEPT !.main = Some([block |-> bs])]) :
                bs \in SeqsUpTo(Blocks, MaxBlocks)}

Opt(v) == {None, Some(v)}

\* Manifests for feed synthesis: every subset of the channel fields present.
FeedConfs ==
    {ConfAbsent, ConfMalformed}
        \cup {ConfOk(MkConf(t, l, d, la, c, m, w, tt, None)) :
                t \in Opt("Title"), l \in Opt("http://l"), d \in Opt(""),
                la \in Opt("en"), c \in Opt("(c)"), m \in Opt("ed"),
                w \in Opt("wm"), tt \in Opt("60")}

----------------------------------------------------------------------------
\* What a run reports

\* One printed line: its kind and the names it mentions.
Msg(kind, detail) == [kind |-> kind, detail |-> detail]

\* The record of one run of a subcommand: the outcome, whether the process
\* panicked, the lines printed, the steps taken in order, the in-memory
\* manifest after the append step (export), the directory listing (rss), and
\* whether the same command ran immediately before.
Run(op, arg, outcome, crashed, out, trace, toml, listing) ==
    [op |-> op, arg |-> arg, outcome |-> outcome, crashed |-> crashed,
     out |-> out, trace |-> trace, toml |-> toml, listing |-> listing,
     again |-> FALSE]

\* A run's record, marked when it repeats the command line of the run
\* before it.
Stamp(run, prev) ==
    [run EXCEPT !.again = (prev.op = run.op /\ prev.arg = run.arg)]

NoRun == Run("none", "", "Ok", FALSE, <<>>, <<>>, None, <<>>)

----------------------------------------------------------------------------
\* Block renderer and Conf::to_html (config module)

\* Markdown to HTML: a leading "# " opens a top-level heading, other text is
\* a paragraph, empty source is empty output.
Md(text) ==
    IF text = <<>> THEN <<>>
    ELSE IF Head(text) = "# "
         THEN <<"<h1>">>
                 \o SelectSeq(Tail(text), LAMBDA t : t # "\n")
                 \o <<"</h1>">>
         ELSE <<"<p>">> \o text \o <<"</p>">>

\* The file a block's content_file names.
ReadPath(path, dcs) == read_to_string(dcs[path[2]])

\* render(block): dispatch on format, then read and convert the source.
Render(block, dcs) ==
    IF block.format = None
    THEN [ok |-> FALSE, err |-> "FormatMissing", body |-> <<>>]
    ELSE IF Unwrap(block.format) # "md"
    THEN [ok |-> FALSE, err |-> "UnsupportedFormat", body |-> <<>>]
    ELSE IF block.content_file = None
    THEN [ok |-> TRUE, err |-> "", body |-> <<>>]
    ELSE LET r == ReadPath(Unwrap(block.content_file), dcs)
         IN  IF r.ok
             THEN [ok |-> TRUE, err |-> "", body |-> Md(r.text)]
             ELSE [ok |-> FALSE, err |-> "SourceUnreadable", body |-> <<>>]

RECURSIVE RenderBlocks(_, _)
RenderBlocks(blocks, dcs) ==
    IF blocks = <<>> THEN [ok |-> TRUE, err |-> "", body |-> <<>>]
    ELSE LET first == Render(Head(blocks), dcs)
             rest == RenderBlocks(Tail(blocks), dcs)
         IN  IF ~first.ok THEN first
             ELSE IF ~rest.ok THEN rest
             ELSE [ok |-> TRUE, err |-> "", body |-> first.body \o rest.body]

\* Conf::to_html: every block of main in order, fragments concatenated; a
\* block that cannot be rendered fails the whole rendering.
to_html(toml, dcs) ==
    IF toml.main = None THEN [ok |-> TRUE, err |-> "", body |-> <<>>]
    ELSE RenderBlocks(Unwrap(toml.main).block, dcs)

----------------------------------------------------------------------------
\* cli_export

\* The block cli_export builds for the requested document.
TextBlock(document) == Object(Some(md_file_path(document)), Some("md"))

AppendBlock_prepend(toml, text) ==
    IF toml.main = None
    THEN [toml EXCEPT !.main = Some([block |-> <<text>>])]
    ELSE [toml EXCEPT !.main = Some([block |-> <<text>> \o Unwrap(toml.main).block])]

\* let mut toml = conf; main is created with the one block when absent, and
\* the block is pushed at the end when present.
AppendBlock(toml, text) ==
    IF toml.main = None
    THEN [toml EXCEPT !.main = Some([block |-> <<text>>])]
    ELSE [toml EXCEPT !.main = Some([block |-> Append(Unwrap(toml.main).block, text)])]

\* fs::write below feed/export succeeds when the directory exists.
CanWriteExport(ds) == "feed/export" \in ds

\* The run of cli_export from the document check on, with the files it
\* leaves: the exported pages and the manifest resource.
ExportFrom(document, ds, dcs, cf, hs, trace) ==
    IF ~read_conf(cf)
    THEN [html |-> hs, conf |-> cf,
          last |-> Run("export", document, "ConfigMissing", FALSE,
                       <<Msg("ConfigMissing", <<"conf.toml">>)>>,
                       trace \o <<"read_conf">>, None, <<>>)]
    ELSE IF ~from_str(cf).ok
    THEN [html |-> hs, conf |-> cf,
          last |-> Run("export", document, "Panic", TRUE, <<>>,
                       trace \o <<"read_conf", "parse_conf">>, None, <<>>)]
    ELSE LET toml == AppendBlock(from_str(cf).conf, TextBlock(document))
             page == to_html(toml, dcs)
             steps == trace \o <<"read_conf", "parse_conf", "append_block", "to_html">>
         IN  IF ~page.ok
             THEN [html |-> hs, conf |-> cf,
                   last |-> Run("export", document, page.err, TRUE, <<>>,
                                steps, Some(toml), <<>>)]
             ELSE IF ~CanWriteExport(ds)
             THEN [html |-> hs, conf |-> cf,
                   last |-> Run("export", document, "WriteFailed", FALSE,
                                <<Msg("WriteFailed", <<document>>)>>,
                                steps \o <<"write">>, Some(toml), <<>>)]
             ELSE [html |-> [hs EXCEPT ![document] = Some(page.body)],
                   conf |-> cf,
                   last |-> Run("export", document, "Ok", FALSE,
                                <<Msg("Exported", <<document>>)>>,
                                steps \o <<"write">>, Some(toml), <<>>)]

\* cli_export with the manifest loaded before the document check.
cli_export_conf_first(document, ds, dcs, cf, hs) ==
    IF ~read_conf(cf) \/ ~from_str(cf).ok
    THEN ExportFrom(document, ds, dcs, cf, hs, <<>>)
    ELSE IF dcs[document] = Absent
    THEN [html |-> hs, conf |-> cf,
          last |-> Run("export", document, "DocumentNotFound", FALSE,
                       <<Msg("DocumentNotFound", <<document>>)>>,
                       <<"read_conf", "parse_conf", "stat_document">>, None, <<>>)]
    ELSE ExportFrom(document, ds, dcs, cf, hs, <<"stat_document">>)

\* cli_export that saves the manifest with the appended block back to
\* feed/conf.toml after a successful export.
cli_export_persists(document, ds, dcs, cf, hs) ==
    IF dcs[document] = Absent
    THEN [html |-> hs, conf |-> cf,
          last |-> Run("export", document, "DocumentNotFound", FALSE,
                       <<Msg("DocumentNotFound", <<document>>)>>,
                       <<"stat_document">>, None, <<>>)]
    ELSE LET r == ExportFrom(document, ds, dcs, cf, hs, <<"stat_document">>)
         IN  IF r.last.outcome = "Ok"
             THEN [r EXCEPT !.conf = ConfOk(Unwrap(r.last.toml))]
             ELSE r

\* cli_export that creates (truncates) the output file before rendering, so
\* a failed rendering leaves an empty page behind.
cli_export_truncates(document, ds, dcs, cf, hs) ==
    IF dcs[document] = Absent
    THEN [html |-> hs, conf |-> cf,
          last |-> Run("export", document, "DocumentNotFound", FALSE,
                       <<Msg("DocumentNotFound", <<document>>)>>,
                       <<"stat_document">>, None, <<>>)]
    ELSE LET r == ExportFrom(document, ds, dcs, cf, hs, <<"stat_document">>)
         IN  IF r.last.crashed /\ r.last.toml # None /\ CanWriteExport(ds)
             THEN [r EXCEPT !.html[document] = Some(<<>>)]
             ELSE r

\* cli_export: the document must exist before anything else is read.
cli_export(document, ds, dcs, cf, hs) ==
    IF dcs[document] = Absent
    THEN [html |-> hs, conf |-> cf,
          last |-> Run("export", document, "DocumentNotFound", FALSE,
                       <<Msg("DocumentNotFound", <<document>>)>>,
                       <<"stat_document">>, None, <<>>)]
    ELSE ExportFrom(document, ds, dcs, cf, hs, <<"stat_document">>)

----------------------------------------------------------------------------
\* cli_establish, cli_create, cli_remove, cli_edit

\* One "Creating ..." line per directory that did not exist, in order.
Creating(ds) ==
    SelectSeq([i \in 1..Len(FeedDirs) |-> Msg("Creating", <<FeedDirs[i]>>)],
              LAMBDA m : m.detail[1] \notin ds)

cli_establish(ds) ==
    [dirs |-> ds \cup AllDirs,
     last |-> Run("establish", "", "Ok", FALSE, Creating(ds), <<>>, None, <<>>)]

cli_create(filename, ds, dcs) ==
    IF "feed/documents" \notin ds
    THEN [docs |-> dcs,
          last |-> Run("create", filename, "NoDocumentsFolder", FALSE,
                       <<Msg("NoDocumentsFolder", <<>>)>>, <<>>, None, <<>>)]
    ELSE IF dcs[filename] # Absent
    THEN [docs |-> dcs,
          last |-> Run("create", filename, "AlreadyExists", FALSE,
                       <<Msg("AlreadyExists", <<filename>>)>>, <<>>, None, <<>>)]
    ELSE [docs |-> [dcs EXCEPT ![filename] = Some(initial_content(filename))],
          last |-> Run("create", filename, "Ok", FALSE,
                       <<Msg("Created", <<filename>>)>>, <<>>, None, <<>>)]

\* fs::remove_file: the line printed for one deletion.
Removal(what, filename, file) ==
    IF file = Absent
    THEN Msg("ErrorRemoving", <<what, filename>>)
    ELSE Msg("Deleted", <<what, filename>>)

\* cli_remove that deletes the source document only.
cli_remove_source_only(filename, dcs, hs) ==
    [docs |-> [dcs EXCEPT ![filename] = Absent],
     html |-> hs,
     last |-> Run("remove", filename, "Ok", FALSE,
                  <<Removal("source", filename, dcs[filename])>>,
                  <<>>, None, <<>>)]

\* cli_remove: both deletions are attempted, whatever the first one did.
cli_remove(filename, dcs, hs) ==
    [docs |-> [dcs EXCEPT ![filename] = Absent],
     html |-> [hs EXCEPT ![filename] = Absent],
     last |-> Run("remove", filename, "Ok", FALSE,
                  <<Removal("source", filename, dcs[filename]),
                    Removal("exported", filename, hs[filename])>>,
                  <<>>, None, <<>>)]

\* cli_edit: the editor is launched on an existing document and leaves
\* `edited` in it.
cli_edit(filename, dcs, edited) ==
    IF dcs[filename] = Absent
    THEN [docs |-> dcs,
          last |-> Run("edit", filename, "NoSuchDocument", FALSE,
                       <<Msg("NoSuchDocument", <<>>)>>, <<>>, None, <<>>)]
    ELSE [docs |-> [dcs EXCEPT ![filename] = Some(edited)],
          last |-> Run("edit", filename, "Ok", FALSE, <<>>, <<>>, None, <<>>)]

----------------------------------------------------------------------------
\* cli_rss

\* ItemBuilder: title is the entry's file name, description the text read
\* from it, or the empty string when the read fails.
Item(name, dcs) ==
    [title |-> file_name(name),
     description |-> unwrap_or_default(read_to_string(dcs[name]))]

\* The loop over fs::read_dir("feed/documents/"): one item per entry, pushed
\* in listing order.
Items(listing, dcs) == [i \in 1..Len(listing) |-> Item(listing[i], dcs)]

\* Fail-fast validation: only the first absent field is named.
missing_fields_first(c) ==
    LET all == SelectSeq(RequiredFields, LAMBDA f : c[f] = None)
    IN  IF all = <<>> THEN <<>> ELSE <<Head(all)>>

\* The names pushed to missing_fields, in the order of the three checks.
missing_fields(c) == SelectSeq(RequiredFields, LAMBDA f : c[f] = None)

\* A channel builder that defaults an absent language and drops ttl.
BuildChannel_defaults(c, items) ==
    [title |-> Unwrap(c.title), link |-> Unwrap(c.link),
     description |-> Unwrap(c.description),
     language |-> IF c.language = None THEN Some("en") ELSE c.language,
     copyright |-> c.copyright,
     managing_editor |-> c.managing_editor, webmaster |-> c.webmaster,
     ttl |-> None, generator |-> Some("Adduce"), items |-> items]

\* ChannelBuilder: the three required fields unwrapped, the optional fields
\* as the manifest has them, the generator set, the items attached.
BuildChannel(c, items) ==
    [title |-> Unwrap(c.title), link |-> Unwrap(c.link),
     description |-> Unwrap(c.description),
     language |-> c.language, copyright |-> c.copyright,
     managing_editor |-> c.managing_editor, webmaster |-> c.webmaster,
     ttl |-> c.ttl, generator |-> Some("Adduce"), items |-> items]

\* The run of cli_rss once the items are built, with the feed file it leaves.
FeedFrom(ds, cf, fd, items, listing) ==
    IF ~read_conf(cf)
    THEN [feed |-> fd,
          last |-> Run("rss", "", "ConfigMissing", FALSE,
                       <<Msg("ConfigMissing", <<"conf.toml">>)>>,
                       <<"read_dir", "read_conf">>, None, listing)]
    ELSE IF ~from_str(cf).ok
    THEN [feed |-> fd,
          last |-> Run("rss", "", "ConfigMalformed", FALSE,
                       <<Msg("ConfigMalformed", <<"conf.toml">>)>>,
                       <<"read_dir", "read_conf", "parse_conf">>, None, listing)]
    ELSE LET c == from_str(cf).conf
             steps == <<"read_dir", "read_conf", "parse_conf", "validate">>
         IN  IF c.title = None \/ c.link = None \/ c.description = None
             THEN [feed |-> fd,
                   last |-> Run("rss", "", "MissingFields", FALSE,
                                <<Msg("MissingFields", missing_fields(c))>>,
                                steps, None, listing)]
             ELSE IF ~CanWriteExport(ds)
             THEN [feed |-> fd,
                   last |-> Run("rss", "", "WriteFailed", FALSE,
                                <<Msg("WriteFailed", <<"feed.xml">>)>>,
                                steps \o <<"build", "write">>, None, listing)]
             ELSE [feed |-> Some(BuildChannel(c, items)),
                   last |-> Run("rss", "", "Ok", FALSE,
                                <<Msg("FeedGenerated", <<>>)>>,
                                steps \o <<"build", "write">>, None, listing)]

\* cli_rss that removes the feed document of an earlier run when it fails.
cli_rss_clears(ds, dcs, cf, fd, listing) ==
    IF "feed/documents" \notin ds
    THEN [feed |-> fd,
          last |-> Run("rss", "", "Panic", TRUE, <<>>, <<"read_dir">>, None, <<>>)]
    ELSE LET r == FeedFrom(ds, cf, fd, Items(listing, dcs), listing)
         IN  IF r.last.outcome = "Ok" THEN r ELSE [r EXCEPT !.feed = Absent]

\* cli_rss: read_dir(...).unwrap() panics without the documents directory.
cli_rss(ds, dcs, cf, fd, listing) ==
    IF "feed/documents" \notin ds
    THEN [feed |-> fd,
          last |-> Run("rss", "", "Panic", TRUE, <<>>, <<"read_dir">>, None, <<>>)]
    ELSE FeedFrom(ds, cf, fd, Items(listing, dcs), listing)

\* The orders in which a directory listing may produce the existing entries.
Listings(dcs) ==
    LET present == {n \in Names : dcs[n] # Absent}
    IN  {s \in SeqsUpTo(present, Cardinality(present)) :
            Len(s) = Cardinality(present)
            /\ \A i, j \in 1..Len(s) : i # j => s[i] # s[j]}

----------------------------------------------------------------------------
\* Initial states

NoFiles == [n \in Names |-> Absent]

\* A feed document left by an earlier run under an earlier manifest.
OldFeed ==
    Some(BuildChannel(MkConf(Some("Old"), Some("http://old"), Some("old"),
                             None, None, None, None, None, None), <<>>))

\* Page export and document lifecycle: nothing created yet, the structure
\* not yet established or established without the export directory.
Init ==
    /\ dirs \in {{}, {"feed", "feed/documents"}}
    /\ docs = NoFiles
    /\ conf \in ExportConfs
    /\ html = NoFiles
    /\ feed = Absent
    /\ last = NoRun

\* Feed synthesis: an established feed, any manifest of FeedConfs, possibly
\* a feed document from an earlier run.
InitFeed ==
    /\ dirs = AllDirs
    /\ docs = NoFiles
    /\ conf \in FeedConfs
    /\ html = NoFiles
    /\ feed \in {Absent, OldFeed}
    /\ last = NoRun

----------------------------------------------------------------------------
\* Actions: one per subcommand

Establish ==
    LET r == cli_establish(dirs)
    IN  /\ dirs' = r.dirs
        /\ last' = Stamp(r.last, last)
        /\ UNCHANGED <<docs, conf, html, feed>>

Create(filename) ==
    LET r == cli_create(filename, dirs, docs)
    IN  /\ docs' = r.docs
        /\ last' = Stamp(r.last, last)
        /\ UNCHANGED <<dirs, conf, html, feed>>

Remove(filename) ==
    LET r == cli_remove(filename, docs, html)
    IN  /\ docs' = r.docs
        /\ html' = r.html
        /\ last' = Stamp(r.last, last)
        /\ UNCHANGED <<dirs, conf, feed>>

Edit(filename) ==
    \E edited \in EditContents :
        LET r == cli_edit(filename, docs, edited)
        IN  /\ docs' = r.docs
            /\ last' = Stamp(r.last, last)
            /\ UNCHANGED <<dirs, conf, html, feed>>

Export(document) ==
    LET r == cli_export(document, dirs, docs, conf, html)
    IN  /\ html' = r.html
        /\ conf' = r.conf
        /\ last' = Stamp(r.last, last)
        /\ UNCHANGED <<dirs, docs, feed>>

Rss ==
    \E listing \in Listings(docs) :
        LET r == cli_rss(dirs, docs, conf, feed, listing)
        IN  /\ feed' = r.feed
            /\ last' = Stamp(r.last, last)
            /\ UNCHANGED <<dirs, docs, conf, html>>

Next ==
    \/ Establish
    \/ \E n \in Names : Create(n)
    \/ \E n \in Names : Remove(n)
    \/ \E n \in Names : Edit(n)
    \/ \E n \in Names : Export(n)
    \/ Rss

Spec == Init /\ [][Next]_vars

NextFeed ==
    \/ \E n \in Names : Create(n)
    \/ \E n \in Names : Remove(n)
    \/ \E n \in Names : Edit(n)
    \/ Rss

SpecFeed == InitFeed /\ [][NextFeed]_vars

----------------------------------------------------------------------------
\* Properties

\* The block list of a manifest's main section; empty when main is absent.
PriorBlocks(c) == IF c.main = None THEN <<>> ELSE Unwrap(c.main).block

\* The required fields a manifest lacks.
AbsentRequired(c) == {f \in {"title", "link", "description"} : c[f] = None}

SeqToSet(s) == {s[i] : i \in 1..Len(s)}

FailedFeedOutcomes == {"ConfigMissing", "ConfigMalformed", "MissingFields"}

\* C1: an export of a document whose source file does not exist fails with
\* DocumentNotFound, leaves every exported page as it was, and ends before
\* the manifest is read.
C1_MissingDocument ==
    [][(last'.op = "export" /\ docs[last'.arg] = Absent)
          => /\ last'.outcome = "DocumentNotFound"
             /\ ~last'.crashed
             /\ html' = html
             /\ "read_conf" \notin SeqToSet(last'.trace)]_vars

C1_Witness ==
    /\ last.op = "export"
    /\ last.outcome = "DocumentNotFound"
    /\ docs[last.arg] = Absent
    /\ conf.kind = "malformed"

\* C2: with the source document present, an export under an absent manifest
\* reports ConfigMissing and under an unparsable manifest reports
\* ConfigMalformed; either way the run returns normally with one message.
C2_ManifestFailuresReported ==
    (last.op = "export" /\ docs[last.arg] # Absent /\ conf.kind # "ok")
        => /\ last.outcome =
                 (IF conf.kind = "absent" THEN "ConfigMissing" ELSE "ConfigMalformed")
           /\ ~last.crashed
           /\ Len(last.out) = 1

\* C3: when the manifest parses but lacks required fields, feed synthesis
\* leaves the feed document untouched and prints one message naming exactly
\* the absent required fields, each once.
C3_AllMissingFieldsReported ==
    [][(last'.op = "rss" /\ conf.kind = "ok" /\ AbsentRequired(conf.conf) # {})
          => /\ feed' = feed
             /\ last'.outcome = "MissingFields"
             /\ Len(last'.out) = 1
             /\ SeqToSet(last'.out[1].detail) = AbsentRequired(conf.conf)
             /\ Len(last'.out[1].detail) = Cardinality(AbsentRequired(conf.conf))]_vars

C3_Witness ==
    /\ last.op = "rss"
    /\ last.outcome = "MissingFields"
    /\ AbsentRequired(conf.conf) = {"link", "description"}
    /\ feed = OldFeed

\* C4: a successful feed synthesis writes one entry per directory entry, in
\* listing order, each titled with the file name and described by the file's
\* exact raw content.
C4_EntriesCarryRawContent ==
    (last.op = "rss" /\ last.outcome = "Ok")
        => /\ feed # Absent
           /\ SeqToSet(last.listing) = {n \in Names : docs[n] # Absent}
           /\ Len(Unwrap(feed).items) = Len(last.listing)
           /\ \A i \in 1..Len(last.listing) :
                /\ Unwrap(feed).items[i].title = file_name(last.listing[i])
                /\ Unwrap(feed).items[i].description = Unwrap(docs[last.listing[i]])

\* C5: the manifest an export holds after its append step has as main block
\* list the manifest's prior list (empty when main is absent) with the
\* document's block added as last element.
C5_AppendKeepsPriorBlocks ==
    (last.op = "export" /\ last.toml # None)
        => LET prior == PriorBlocks(conf.conf)
               toml == Unwrap(last.toml)
           IN  /\ toml.main # None
               /\ Len(PriorBlocks(toml)) = Len(prior) + 1
               /\ \A i \in 1..Len(prior) : PriorBlocks(toml)[i] = prior[i]
               /\ PriorBlocks(toml)[Len(prior) + 1] = TextBlock(last.arg)
               /\ (conf.conf.main = None => PriorBlocks(toml) = <<TextBlock(last.arg)>>)

C5_Witness ==
    /\ last.op = "export"
    /\ last.toml # None
    /\ Len(PriorBlocks(conf.conf)) >= 2
    /\ PriorBlocks(conf.conf)[1] # PriorBlocks(conf.conf)[2]

\* C6: an export that repeats the export run immediately before it ends the
\* same way and leaves the same page, the manifest resource is never
\* changed, and the manifest held in memory has the document's block once.
C6_ExportIdempotent ==
    [][(last'.op = "export" /\ last.op = "export" /\ last'.arg = last.arg)
          => /\ last'.outcome = last.outcome
             /\ html' = html
             /\ conf' = conf
             /\ last'.toml = last.toml]_vars

C6_Witness ==
    /\ last.op = "export"
    /\ last.again
    /\ last.outcome = "Ok"
    /\ Len(PriorBlocks(conf.conf)) >= 1
    /\ html[last.arg] # Absent

\* C7: an export changes no page but the requested one, and changes that one
\* only by a single final write, made after every block of the manifest has
\* rendered, of the complete rendering; when a block fails to render every
\* page stays as it was.
C7_ExportAllOrNothing ==
    [][last'.op = "export"
          => LET d == last'.arg
                 blocks == PriorBlocks(Unwrap(last'.toml))
                 written == SelectSeq(last'.trace, LAMBDA t : t = "write")
             IN  /\ \A n \in Names \ {d} : html'[n] = html[n]
                 /\ Len(written) <= 1
                 /\ (written # <<>> =>
                        /\ last'.trace[Len(last'.trace)] = "write"
                        /\ "to_html" \in SeqToSet(last'.trace))
                 /\ (html'[d] # html[d] => last'.outcome = "Ok")
                 /\ (last'.outcome = "Ok" =>
                        /\ \A i \in 1..Len(blocks) : Render(blocks[i], docs).ok
                        /\ html'[d] = Some(to_html(Unwrap(last'.toml), docs).body))
                 /\ ((last'.toml # None
                        /\ \E i \in 1..Len(blocks) : ~Render(blocks[i], docs).ok)
                       => /\ html' = html
                          /\ written = <<>>)]_vars

C7_Witness ==
    /\ last.op = "export"
    /\ last.outcome = "SourceUnreadable"
    /\ html[last.arg] # Absent
    /\ html[last.arg] # Some(<<>>)

\* C8: the feed document changes only in a feed synthesis whose manifest
\* exists, parses and has title, link and description; a run that ends
\* ConfigMissing, ConfigMalformed or MissingFields prints one message,
\* returns normally and leaves the feed document as it was.
C8_FeedWrittenOnlyWhenValid ==
    [][/\ (feed' # feed =>
              /\ last'.op = "rss"
              /\ last'.outcome = "Ok"
              /\ conf.kind = "ok"
              /\ AbsentRequired(conf.conf) = {})
       /\ (last'.op = "rss" =>
              /\ (conf.kind = "absent" => last'.outcome = "ConfigMissing")
              /\ (conf.kind = "malformed" => last'.outcome = "ConfigMalformed")
              /\ (last'.outcome \in FailedFeedOutcomes =>
                     /\ feed' = feed
                     /\ ~last'.crashed
                     /\ Len(last'.out) = 1))]_vars

C8_Witness ==
    /\ last.op = "rss"
    /\ last.outcome = "ConfigMalformed"
    /\ feed = OldFeed

\* C9: the feed a successful synthesis writes has each optional channel
\* field exactly as the manifest has it, absent when the manifest has none,
\* and always carries the generator string.
C9_OptionalFieldsPassThrough ==
    (last.op = "rss" /\ last.outcome = "Ok")
        => /\ feed # Absent
           /\ \A i \in 1..Len(OptionalFields) :
                Unwrap(feed)[OptionalFields[i]] = conf.conf[OptionalFields[i]]
           /\ Unwrap(feed).generator = Some("Adduce")

C9_Witness ==
    /\ last.op = "rss"
    /\ last.outcome = "Ok"
    /\ conf.conf.language = None
    /\ conf.conf.ttl = Some("60")
    /\ conf.conf.copyright = None
    /\ conf.conf.webmaster = Some("wm")

\* C10: an exported page exists only while its source document exists.
C10_ExportedOnlyWithSource ==
    \A n \in Names : html[n] # Absent => docs[n] # Absent

C10_Witness ==
    /\ last.op = "remove"
    /\ last.out[2].kind = "Deleted"
    /\ docs[last.arg] = Absent
    /\ html[last.arg] = Absent
    /\ \E n \in Names : html[n] # Absent

====
